---- MODULE Spec2Model ----
(***************************************************************************)
(* Model of the baseline recommender (SourceCode/baseline_recommender.py)  *)
(* and of its batch driver (SourceCode/Baseline.py).                       *)
(*                                                                         *)
(* Text is a sequence of characters, one TLA+ string per character.  The   *)
(* Korean syllables of the source are written romanised, one string per    *)
(* syllable: "haek","sim" is the competency prefix, "i","su" the           *)
(* completion marker.                                                      *)
(***************************************************************************)
EXTENDS Integers, Sequences, FiniteSets, TLC

VARIABLES
    \* column resolution (_find_col, _detect_columns, Baseline.py line 63)
    cols, candidates, found, fpc,
    \* need-weight policies
    student_levels, target_per_comp, need_w, wpc,
    \* build_student_profile
    p_history, p_student_id, profile, ppc,
    \* score_programs_for_student
    programs_df, history_df, student_id, top_k, use_target_gap,
    resolved, levels, weights, taken_prog_ids, out, spc,
    \* the batch driver (Baseline.py); it shares programs_df and history_df
    all_student_ids, loop_i, all_results, log, written, bpc

findVars    == <<cols, candidates, found, fpc>>
weightVars  == <<student_levels, target_per_comp, need_w, wpc>>
profileVars == <<p_history, p_student_id, profile, ppc>>
inputVars   == <<programs_df, history_df, student_id, top_k, use_target_gap>>
scoreVars   == <<inputVars, resolved, levels, weights, taken_prog_ids, out, spc>>
stageVars   == <<resolved, levels, weights, taken_prog_ids, out, spc>>
batchVars   == <<all_student_ids, loop_i, all_results, log, written, bpc>>
vars        == <<findVars, weightVars, profileVars, scoreVars, batchVars>>

\* What a component leaves alone: the state of the other components.
notFind    == <<weightVars, profileVars, scoreVars, batchVars>>
notWeights == <<findVars, profileVars, scoreVars, batchVars>>
notProfile == <<findVars, weightVars, scoreVars, batchVars>>
notScore   == <<findVars, weightVars, profileVars, batchVars>>
notBatch   == <<findVars, weightVars, profileVars, inputVars, stageVars>>

----------------------------------------------------------------------------
(* Bounds of the model. *)
MaxCols  == 3   \* columns of a table header
MaxCands == 2   \* entries of a candidate list
MaxComp  == 3   \* competencies of a vector handed to a need-weight policy
MaxProfileRows == 2  \* history rows handed to build_student_profile alone
MaxProg  == 2   \* rows of the catalog table
MaxHist  == 2   \* rows of the history table
MaxTopK  == 2   \* largest top_k asked for
MaxBatchHist == 2  \* rows of the history table handed to the batch driver

----------------------------------------------------------------------------
(* Generic helpers. *)
Min(a, b) == IF a < b THEN a ELSE b
Max(a, b) == IF a > b THEN a ELSE b

SeqsUpTo(S, n) == UNION { [1..k -> S] : k \in 0..n }

\* Optional[str]: None, or a value.
None    == [some |-> FALSE, val |-> <<>>]
Some(x) == [some |-> TRUE, val |-> x]

\* Python's `sub in s` on strings.
Contains(sub, s) ==
    \E i \in 0..(Len(s) - Len(sub)) : SubSeq(s, i + 1, i + Len(sub)) = sub

\* Python's s.startswith(prefix).
StartsWith(s, prefix) ==
    /\ Len(prefix) <= Len(s)
    /\ SubSeq(s, 1, Len(prefix)) = prefix

\* Python's s.strip(): leading and trailing blanks removed.
RECURSIVE LStrip(_)
LStrip(s) == IF s # <<>> /\ Head(s) = " " THEN LStrip(Tail(s)) ELSE s
RECURSIVE RStrip(_)
RStrip(s) ==
    IF s # <<>> /\ s[Len(s)] = " " THEN RStrip(SubSeq(s, 1, Len(s) - 1)) ELSE s
Strip(s) == LStrip(RStrip(s))

----------------------------------------------------------------------------
(* Column resolution. *)

\* The index of the first column, in column order, whose name contains c;
\* 0 when there is none (the inner loop of _find_col).
FirstColWith(cs, c) ==
    IF \E j \in 1..Len(cs) : Contains(c, cs[j])
    THEN CHOOSE j \in 1..Len(cs) :
            /\ Contains(c, cs[j])
            /\ \A i \in 1..(j - 1) : ~Contains(c, cs[i])
    ELSE 0

\* _find_col with the loops swapped: columns outside, candidates inside.
RECURSIVE FindColColumnsFirst(_, _, _)
FindColColumnsFirst(cs, cands, j) ==
    IF j > Len(cs) THEN None
    ELSE IF \E k \in 1..Len(cands) : Contains(cands[k], cs[j])
         THEN Some(cs[j])
         ELSE FindColColumnsFirst(cs, cands, j + 1)

\* _find_col from candidate k on: candidates outside, columns inside.
RECURSIVE FindColFrom(_, _, _)
FindColFrom(cs, cands, k) ==
    IF k > Len(cands) THEN None
    ELSE IF FirstColWith(cs, cands[k]) # 0
         THEN Some(cs[FirstColWith(cs, cands[k])])
         ELSE FindColFrom(cs, cands, k + 1)

FindColMutant(cs, cands) == FindColColumnsFirst(cs, cands, 1)

_find_col(cs, cands) == FindColFrom(cs, cands, 1)

\* Baseline.py line 63: next(c for c in columns if any(key in str(c).strip())).
RECURSIVE DriverFindFrom(_, _, _)
DriverFindFrom(cs, keys, j) ==
    IF j > Len(cs) THEN None
    ELSE IF \E k \in 1..Len(keys) : Contains(keys[k], Strip(cs[j]))
         THEN Some(cs[j])
         ELSE DriverFindFrom(cs, keys, j + 1)

student_id_col_detect(cs, keys) == DriverFindFrom(cs, keys, 1)

\* The literals of the source.
CompPrefix == <<"haek", "sim">>
ProgramCandidates ==
    << <<"peu", "ro", "geu", "raem">>, <<"peu", "ro", "geu">>,
       <<"P", "r", "o", "g", "r", "a", "m">>, <<"p", "r", "o", "g", "r", "a", "m">> >>
StudentCandidates ==
    << <<"hak", "saeng", "I", "D">>, <<"hak", "beon">>, <<"i", "su", "ja", "I", "D">>,
       <<"S", "t", "u", "d", "e", "n", "t">>, <<"s", "t", "u", "d", "e", "n", "t">> >>
CompletionCandidates ==
    << <<"i", "su", "yeo", "bu">>, <<"i", "su">>, <<"su", "ryo", "yeo", "bu">> >>
CompletionMarker == <<"i", "su">>

\* The subsequence of cs whose names start with the competency prefix.
RECURSIVE PrefixCols(_)
PrefixCols(cs) ==
    IF cs = <<>> THEN <<>>
    ELSE IF StartsWith(Head(cs), CompPrefix)
         THEN <<Head(cs)>> \o PrefixCols(Tail(cs))
         ELSE PrefixCols(Tail(cs))

\* _detect_columns: an override (Some) is kept, None is resolved from the header.
\* competency_cols is overridden by [some |-> TRUE, val |-> list].
_detect_columns(cs, program_id_col, student_id_col, completion_col, competency_cols) ==
    [ program_id_col  |-> IF program_id_col.some THEN program_id_col
                          ELSE _find_col(cs, ProgramCandidates),
      student_id_col  |-> IF student_id_col.some THEN student_id_col
                          ELSE _find_col(cs, StudentCandidates),
      completion_col  |-> IF completion_col.some THEN completion_col
                          ELSE _find_col(cs, CompletionCandidates),
      competency_cols |-> IF competency_cols.some THEN competency_cols.val
                          ELSE PrefixCols(cs) ]

----------------------------------------------------------------------------
(* Column resolution as a state machine: a header and a candidate list are   *)
(* drawn, then one of the three resolution routines is applied to them.      *)

ColNames ==
    { <<"hak", "beon">>,                      \* hakbeon
      <<"i", "su", "ja", "I", "D">>,          \* isuja-ID
      <<"i", "su", "yeo", "bu">>,             \* isu-yeobu
      <<" ", "peu", "ro", "geu", "raem">>,    \* " peurogeuraem", leading blank
      <<"haek", "sim", "A">> }                \* haeksim-A
CandTokens ==
    { <<"hak", "beon">>, <<"i", "su">>, <<"I", "D">>,
      <<"peu", "ro", "geu", "raem">> }

FindIdle ==
    /\ cols = <<>>
    /\ candidates = <<>>
    /\ found = None
    /\ fpc = "idle"

InitFind ==
    /\ cols \in SeqsUpTo(ColNames, MaxCols)
    /\ candidates \in SeqsUpTo(CandTokens, MaxCands)
    /\ found = None
    /\ fpc = "start"

\* A call of _find_col(cols, candidates).
FindColCall ==
    /\ fpc = "start"
    /\ found' = _find_col(cols, candidates)
    /\ fpc' = "find_col"
    /\ UNCHANGED <<cols, candidates, notFind>>

\* The driver's own detection of the learner-id column (Baseline.py line 63).
DriverDetect ==
    /\ fpc = "start"
    /\ found' = student_id_col_detect(cols, candidates)
    /\ fpc' = "driver"
    /\ UNCHANGED <<cols, candidates, notFind>>

\* A call of _detect_columns(df) with no override: the literal candidate lists.
DetectColumnsCall ==
    /\ fpc = "start"
    /\ found' = _detect_columns(cols, None, None, None, None)
    /\ fpc' = "detect"
    /\ UNCHANGED <<cols, candidates, notFind>>

----------------------------------------------------------------------------
(* Need-weight policies.                                                     *)
(*                                                                           *)
(* A competency vector is a sequence of integers, in competency_cols order.  *)
(* A weight vector is a sequence of exact fractions over one denominator:    *)
(* [num |-> <<...>>, den |-> d] stands for the floats num[i] / d.  The mean  *)
(* of n levels is Sum / n, so the mean policy's weights have den = n; float  *)
(* rounding is not modelled.                                                 *)

RECURSIVE SumSeq(_)
SumSeq(s) == IF s = <<>> THEN 0 ELSE Head(s) + SumSeq(Tail(s))

\* Series.clip(lower=0) on one entry.
ClipLower0(x) == Max(0, x)

\* w[:] = 1.0 when w.sum() == 0 and the vector is not empty.
FlatFallback(w) ==
    IF SumSeq(w.num) = 0 /\ Len(w.num) > 0
    THEN [num |-> [i \in 1..Len(w.num) |-> w.den], den |-> w.den]
    ELSE w

\* _need_weights_from_mean without the flat-profile fallback.
MeanNoFallback(sl) ==
    LET n == Len(sl)
    IN  [num |-> [i \in 1..n |-> ClipLower0(SumSeq(sl) - n * sl[i])],
         den |-> IF n > 0 THEN n ELSE 1]

\* mu = mean(sl) (0.0 when empty); w = (mu - sl).clip(lower=0); fallback.
_need_weights_from_mean(sl) ==
    LET n == Len(sl)
        w == [num |-> [i \in 1..n |-> ClipLower0(SumSeq(sl) - n * sl[i])],
              den |-> IF n > 0 THEN n ELSE 1]
    IN  FlatFallback(w)

\* _need_weights_from_targets without the clip at 0.
TargetsNoClip(sl, target) ==
    FlatFallback([num |-> [i \in 1..Len(sl) |-> target - sl[i]], den |-> 1])

\* w = (target - sl).clip(lower=0); fallback.
_need_weights_from_targets(sl, target) ==
    LET w == [num |-> [i \in 1..Len(sl) |-> ClipLower0(target - sl[i])],
              den |-> 1]
    IN  FlatFallback(w)

LevelVals == {-1, 0, 2, 5, 8}
Targets   == {0, 3, 5}
NoWeights == [num |-> <<>>, den |-> 1]

WeightsIdle ==
    /\ student_levels = <<>>
    /\ target_per_comp = 0
    /\ need_w = NoWeights
    /\ wpc = "idle"

InitWeights ==
    /\ student_levels \in SeqsUpTo(LevelVals, MaxComp)
    /\ target_per_comp \in Targets
    /\ need_w = NoWeights
    /\ wpc = "start"

\* need_w = _need_weights_from_mean(levels)
MeanPolicy ==
    /\ wpc = "start"
    /\ need_w' = _need_weights_from_mean(student_levels)
    /\ wpc' = "mean"
    /\ UNCHANGED <<student_levels, target_per_comp, notWeights>>

\* need_w = _need_weights_from_targets(levels, target_per_comp)
TargetPolicy ==
    /\ wpc = "start"
    /\ need_w' = _need_weights_from_targets(student_levels, target_per_comp)
    /\ wpc' = "targets"
    /\ UNCHANGED <<student_levels, target_per_comp, notWeights>>

----------------------------------------------------------------------------
(* Tables.                                                                   *)
(*                                                                           *)
(* A cell is an integer, a float with an integral value, a text or a missing *)
(* value (NaN).  A table is [cols |-> header, rows |-> sequence of rows], a  *)
(* row being a function from the header's names to cells.                    *)

IntCell(n)   == [k |-> "int",   n |-> n, s |-> <<>>]
FloatCell(n) == [k |-> "float", n |-> n, s |-> <<>>]
StrCell(s)   == [k |-> "str",   n |-> 0, s |-> s]
NaN          == [k |-> "nan",   n |-> 0, s |-> <<>>]

DigitChar == <<"0", "1", "2", "3", "4", "5", "6", "7", "8", "9">>
IsDigit(c) == \E d \in 1..10 : DigitChar[d] = c
DigitVal(c) == (CHOOSE d \in 1..10 : DigitChar[d] = c) - 1

\* str(n) of a non-negative integer.
RECURSIVE NatStr(_)
NatStr(n) ==
    IF n < 10 THEN <<DigitChar[n + 1]>>
    ELSE NatStr(n \div 10) \o <<DigitChar[(n % 10) + 1]>>
IntStr(n) == IF n < 0 THEN <<"-">> \o NatStr(-n) ELSE NatStr(n)

\* astype(str) / str(): 1 -> "1", 1.0 -> "1.0", NaN -> "nan", text unchanged.
AsStr(cell) ==
    CASE cell.k = "int"   -> IntStr(cell.n)
      [] cell.k = "float" -> IntStr(cell.n) \o <<".", "0">>
      [] cell.k = "str"   -> cell.s
      [] cell.k = "nan"   -> <<"n", "a", "n">>

\* The value of a text of decimal digits.
RECURSIVE DigitsVal(_)
DigitsVal(s) ==
    IF s = <<>> THEN 0
    ELSE 10 * DigitsVal(SubSeq(s, 1, Len(s) - 1)) + DigitVal(s[Len(s)])
IsNumeral(s) == s # <<>> /\ \A i \in 1..Len(s) : IsDigit(s[i])

\* pd.to_numeric(errors='coerce') followed by fillna(0).
ToNumeric(cell) ==
    CASE cell.k \in {"int", "float"} -> cell.n
      [] cell.k = "str" -> IF IsNumeral(cell.s) THEN DigitsVal(cell.s) ELSE 0
      [] cell.k = "nan" -> 0

Range(f) == { f[x] : x \in DOMAIN f }
HasCol(df, col) == col \in Range(df.cols)

\* The indices of rs, in order, that satisfy keep (boolean indexing keeps order).
RECURSIVE KeepIdx(_, _)
KeepIdx(n, keep) ==
    IF n = 0 THEN <<>>
    ELSE IF n \in keep THEN KeepIdx(n - 1, keep) \o <<n>> ELSE KeepIdx(n - 1, keep)
Filter(rs, keep) ==
    LET ix == KeepIdx(Len(rs), keep) IN [j \in 1..Len(ix) |-> rs[ix[j]]]

Ok(v)      == [ok |-> TRUE, val |-> v, err |-> "none"]
Raise(e)   == [ok |-> FALSE, val |-> <<>>, err |-> e]

\* The rows of the learner: history_df[history_df[student_id_col].astype(str) == str(student_id)].
LearnerRows(hist, sid, student_id_col) ==
    Filter(hist.rows,
           { j \in 1..Len(hist.rows) :
                AsStr(hist.rows[j][student_id_col]) = sid })

\* mask_completed: status.astype(str).str.contains(marker, na=False).
CompletedIdx(df_s, completion_col) ==
    { j \in 1..Len(df_s) : Contains(CompletionMarker, AsStr(df_s[j][completion_col])) }

\* df_s[competency_cols].apply(pd.to_numeric, errors='coerce').fillna(0).sum(axis=0)
ColumnSums(df_s, competency_cols) ==
    [c \in 1..Len(competency_cols) |->
        SumSeq([j \in 1..Len(df_s) |-> ToNumeric(df_s[j][competency_cols[c]])])]

\* build_student_profile that applies the completion mask even when it is empty.
QualifyingNoFallback(df_s, completion_col) ==
    IF completion_col.some
    THEN Filter(df_s, CompletedIdx(df_s, completion_col.val))
    ELSE df_s

\* Lines 95-98: the completed rows if there is any, else all of the learner's rows.
Qualifying(df_s, completion_col) ==
    IF completion_col.some
    THEN IF CompletedIdx(df_s, completion_col.val) # {}
         THEN Filter(df_s, CompletedIdx(df_s, completion_col.val))
         ELSE df_s
    ELSE df_s

\* build_student_profile: Ok(levels in competency_cols order) or a ValueError.
build_student_profile(hist, sid, student_id_col, completion_col, competency_cols) ==
    LET det  == _detect_columns(hist.cols, None, student_id_col,
                                completion_col, competency_cols)
        df_s == LearnerRows(hist, sid, det.student_id_col.val)
    IN  IF ~det.student_id_col.some THEN Raise("ValueError: student id column")
        ELSE IF det.competency_cols = <<>> THEN Raise("ValueError: competency columns")
        ELSE IF Len(df_s) = 0
             THEN Ok([c \in 1..Len(det.competency_cols) |-> 0])
             ELSE Ok(ColumnSums(Qualifying(df_s, det.completion_col),
                                det.competency_cols))

----------------------------------------------------------------------------
(* Input tables.  Rows are written by role and laid out under a header; the  *)
(* code under study sees only the header's names.                            *)

HAKBEON == <<"hak", "beon">>                              \* learner id
PROGNAME == <<"peu", "ro", "geu", "raem", "myeong">>      \* program name
ISUYEOBU == <<"i", "su", "yeo", "bu">>                    \* completion status
HAEKSIM_A == <<"haek", "sim", "A">>
HAEKSIM_B == <<"haek", "sim", "B">>
HAEKSIM_C == <<"haek", "sim", "C">>
MYEONGCHING == <<"myeong", "ching">>                      \* a name no candidate matches

ISU      == StrCell(<<"i", "su">>)            \* completed
MI_ISU   == StrCell(<<"mi", "i", "su">>)      \* "not completed", contains the marker
MI_SURYO == StrCell(<<"mi", "su", "ryo">>)    \* no marker
TEXT     == StrCell(<<"x">>)                  \* a non-numeric cell

MakeRow(header, r) ==
    [c \in Range(header) |->
        CASE c = HAKBEON -> r.sid
          [] c \in {PROGNAME, MYEONGCHING} -> r.pid
          [] c = ISUYEOBU -> r.status
          [] c = HAEKSIM_A -> r.a
          [] c \in {HAEKSIM_B, HAEKSIM_C} -> r.b]

MakeTable(header, rs) ==
    [cols |-> header, rows |-> [j \in 1..Len(rs) |-> MakeRow(header, rs[j])]]

HistRow(sid, pid, status, a, b) ==
    [sid |-> sid, pid |-> pid, status |-> status, a |-> a, b |-> b]

HistFull      == <<HAKBEON, PROGNAME, ISUYEOBU, HAEKSIM_A, HAEKSIM_B>>
HistNoStatus  == <<HAKBEON, PROGNAME, HAEKSIM_A, HAEKSIM_B>>
HistNoStudent == <<PROGNAME, ISUYEOBU, HAEKSIM_A, HAEKSIM_B>>
HistNoProgram == <<HAKBEON, ISUYEOBU, HAEKSIM_A, HAEKSIM_B>>
HistNoComp    == <<HAKBEON, PROGNAME, ISUYEOBU>>

EmptyTable == [cols |-> <<>>, rows |-> <<>>]

----------------------------------------------------------------------------
(* build_student_profile as a state machine.                                 *)

ProfileRows ==
    { HistRow(IntCell(1), IntCell(1), ISU, IntCell(8), IntCell(2)),
      HistRow(IntCell(1), IntCell(2), MI_SURYO, IntCell(2), NaN),
      HistRow(IntCell(1), IntCell(2), ISU, TEXT, StrCell(<<"1", "0">>)),
      HistRow(StrCell(<<"0", "1">>), IntCell(1), ISU, IntCell(8), IntCell(8)),
      HistRow(IntCell(2), IntCell(2), ISU, IntCell(5), IntCell(0)),
      HistRow(IntCell(1), IntCell(1), NaN, FloatCell(2), IntCell(2)),
      HistRow(FloatCell(1), IntCell(1), MI_ISU, IntCell(0), IntCell(8)) }
ProfileHeaders == {HistFull, HistNoStatus, HistNoStudent, HistNoComp}
ProfileStudents == { <<"1">>, <<"3">> }

ProfileIdle ==
    /\ p_history = EmptyTable
    /\ p_student_id = <<>>
    /\ profile = Raise("none")
    /\ ppc = "idle"

InitProfile ==
    /\ \E h \in ProfileHeaders, rs \in SeqsUpTo(ProfileRows, MaxProfileRows) :
            p_history = MakeTable(h, rs)
    /\ p_student_id \in ProfileStudents
    /\ profile = Raise("none")
    /\ ppc = "start"

\* profile = build_student_profile(history_df, student_id)
BuildProfile ==
    /\ ppc = "start"
    /\ profile' = build_student_profile(p_history, p_student_id, None, None, None)
    /\ ppc' = "done"
    /\ UNCHANGED <<p_history, p_student_id, notProfile>>

----------------------------------------------------------------------------
(* score_programs_for_student.                                               *)

\* The default of target_per_comp (5.0), which the driver passes as well.
TargetDefault == 5

\* [c for c in comp_cols_prog if c in set(comp_cols_hist)]
RECURSIVE Intersect(_, _)
Intersect(cs, hs) ==
    IF cs = <<>> THEN <<>>
    ELSE IF Head(cs) \in Range(hs)
         THEN <<Head(cs)>> \o Intersect(Tail(cs), hs)
         ELSE Intersect(Tail(cs), hs)

NoColumns ==
    [program_id_col |-> None, student_id_col |-> None, completion_col |-> None,
     competency_cols |-> <<>>]

\* Lines 119-125: the columns of both tables and the aligned competency columns.
ResolveColumns(programs, history) ==
    LET dp == _detect_columns(programs.cols, None, None, None, None)
        dh == _detect_columns(history.cols, None, None, None, None)
        cc == Intersect(dp.competency_cols, dh.competency_cols)
    IN  IF cc = <<>> THEN Raise("ValueError: empty intersection")
        ELSE Ok([program_id_col |-> dp.program_id_col,
                 student_id_col |-> dh.student_id_col,
                 completion_col |-> dh.completion_col,
                 competency_cols |-> cc])

\* Lines 129-132: the policy selected by use_target_gap.
NeedWeights(lv, useTarget, target) ==
    IF useTarget THEN _need_weights_from_targets(lv, target)
    ELSE _need_weights_from_mean(lv)

\* Lines 135-140: the string-coerced program ids of the learner's completed rows,
\* or a KeyError when the history has no column of the catalog's id name.
TakenProgIds(history, sid, r) ==
    IF r.program_id_col.some /\ r.student_id_col.some
    THEN LET df_s == LearnerRows(history, sid, r.student_id_col.val)
         IN  IF r.completion_col.some /\ HasCol(history, r.completion_col.val)
             THEN IF ~HasCol(history, r.program_id_col.val)
                  THEN Raise("KeyError: program id column")
                  ELSE Ok({ AsStr(df_s[j][r.program_id_col.val]) :
                              j \in CompletedIdx(df_s, r.completion_col.val) })
             ELSE Ok({})
    ELSE Ok({})

\* One cell of contrib = cand_comp.mul(need_w, axis=1), as a numerator.
ContribSum(x, w) == x + w
Contrib(x, w) == x * w

\* Lines 143-158: one output row per catalog row, in catalog order; idx is the
\* row's index label, kept until reset_index.
ScoreRows(programs, r, w) ==
    [j \in 1..Len(programs.rows) |->
        LET contrib == [c \in 1..Len(r.competency_cols) |->
                          Contrib(ToNumeric(programs.rows[j][r.competency_cols[c]]),
                                  w.num[c])]
        IN  [idx |-> j,
             id |-> programs.rows[j][r.program_id_col.val],
             score |-> SumSeq(contrib),
             contrib |-> contrib]]

\* Lines 161-162 with the identifiers compared uncoerced: nothing matches.
DropNothing(rows, taken) == rows

\* Lines 161-162: out[~out[program_id_col].astype(str).isin(taken_prog_ids)].
DropCompleted(rows, taken) ==
    IF taken # {}
    THEN Filter(rows, { j \in 1..Len(rows) : AsStr(rows[j].id) \notin taken })
    ELSE rows

\* The orders sort_values('score', ascending=False) may return.  Its default
\* kind is quicksort, which is not stable: rows of equal score come in any order.
IsDescending(rows) ==
    \A i, j \in 1..Len(rows) : i < j => rows[i].score >= rows[j].score
SortOrders(rows) ==
    { [i \in 1..Len(rows) |-> rows[p[i]]] :
        p \in { q \in [1..Len(rows) -> 1..Len(rows)] :
                  /\ \A a, b \in 1..Len(rows) : a # b => q[a] # q[b]
                  /\ IsDescending([i \in 1..Len(rows) |-> rows[q[i]]]) } }

\* head(top_k) that keeps one row too many.
HeadOneMore(rows, k) == SubSeq(rows, 1, Min(k + 1, Len(rows)))

\* head(top_k), top_k positive.
HeadTopK(rows, k) == SubSeq(rows, 1, Min(k, Len(rows)))

CatRow(pid, a, b) == [sid |-> NaN, pid |-> pid, status |-> NaN, a |-> a, b |-> b]

CatFull     == <<PROGNAME, HAEKSIM_A, HAEKSIM_B>>
CatNoId     == <<MYEONGCHING, HAEKSIM_A, HAEKSIM_B>>
CatDisjoint == <<PROGNAME, HAEKSIM_C>>

CatalogRows ==
    { CatRow(IntCell(1), IntCell(10), IntCell(0)),
      CatRow(IntCell(2), IntCell(0), IntCell(10)),
      CatRow(StrCell(<<"3">>), TEXT, IntCell(10)) }
HistoryRows ==
    { HistRow(IntCell(1), FloatCell(3), ISU, IntCell(8), IntCell(2)),
      HistRow(IntCell(1), StrCell(<<"2">>), ISU, IntCell(5), IntCell(5)),
      HistRow(IntCell(1), IntCell(1), MI_SURYO, IntCell(2), IntCell(2)),
      HistRow(IntCell(2), IntCell(1), ISU, IntCell(2), IntCell(8)) }
CatalogHeaders == {CatFull, CatNoId, CatDisjoint}
HistoryHeaders == {HistFull, HistNoStatus, HistNoStudent, HistNoProgram}

ScoreIdle ==
    /\ programs_df = EmptyTable
    /\ history_df = EmptyTable
    /\ student_id = <<>>
    /\ top_k = 1
    /\ use_target_gap = FALSE
    /\ resolved = NoColumns
    /\ levels = <<>>
    /\ weights = NoWeights
    /\ taken_prog_ids = {}
    /\ out = <<>>
    /\ spc = "idle"

InitScore ==
    /\ \E h \in CatalogHeaders, rs \in SeqsUpTo(CatalogRows, MaxProg) :
            programs_df = MakeTable(h, rs)
    /\ \E h \in HistoryHeaders, rs \in SeqsUpTo(HistoryRows, MaxHist) :
            history_df = MakeTable(h, rs)
    /\ student_id = <<"1">>
    /\ top_k \in 1..MaxTopK
    /\ use_target_gap \in BOOLEAN
    /\ resolved = NoColumns
    /\ levels = <<>>
    /\ weights = NoWeights
    /\ taken_prog_ids = {}
    /\ out = <<>>
    /\ spc = "start"

\* Lines 119-125.
Resolve ==
    /\ spc = "start"
    /\ LET r == ResolveColumns(programs_df, history_df)
       IN  IF r.ok
           THEN resolved' = r.val /\ spc' = "resolved"
           ELSE resolved' = resolved /\ spc' = r.err
    /\ UNCHANGED <<inputVars, levels, weights, taken_prog_ids, out, notScore>>

\* Lines 127-132.
ProfileAndWeights ==
    /\ spc = "resolved"
    /\ LET p == build_student_profile(history_df, student_id, resolved.student_id_col,
                                      resolved.completion_col,
                                      Some(resolved.competency_cols))
       IN  IF p.ok
           THEN /\ levels' = p.val
                /\ weights' = NeedWeights(p.val, use_target_gap, TargetDefault)
                /\ spc' = "weighted"
           ELSE /\ UNCHANGED <<levels, weights>>
                /\ spc' = p.err
    /\ UNCHANGED <<inputVars, resolved, taken_prog_ids, out, notScore>>

\* Lines 134-140.
CollectTaken ==
    /\ spc = "weighted"
    /\ LET t == TakenProgIds(history_df, student_id, resolved)
       IN  IF t.ok
           THEN taken_prog_ids' = t.val /\ spc' = "taken"
           ELSE taken_prog_ids' = taken_prog_ids /\ spc' = t.err
    /\ UNCHANGED <<inputVars, resolved, levels, weights, out, notScore>>

\* Lines 142-158.
ScoreEach ==
    /\ spc = "taken"
    /\ IF resolved.program_id_col.some
       THEN /\ out' = ScoreRows(programs_df, resolved, weights)
            /\ spc' = "scored"
       ELSE /\ out' = out
            /\ spc' = "ValueError: program id column"
    /\ UNCHANGED <<inputVars, resolved, levels, weights, taken_prog_ids, notScore>>

\* Lines 160-162.
Drop ==
    /\ spc = "scored"
    /\ out' = DropCompleted(out, taken_prog_ids)
    /\ spc' = "dropped"
    /\ UNCHANGED <<inputVars, resolved, levels, weights, taken_prog_ids, notScore>>

\* Line 165: sort_values('score', ascending=False).
Sort ==
    /\ spc = "dropped"
    /\ out' \in SortOrders(out)
    /\ spc' = "sorted"
    /\ UNCHANGED <<inputVars, resolved, levels, weights, taken_prog_ids, notScore>>

\* Line 165: head(top_k).reset_index(drop=True), and the return.
Truncate ==
    /\ spc = "sorted"
    /\ out' = HeadTopK(out, top_k)
    /\ spc' = "returned"
    /\ UNCHANGED <<inputVars, resolved, levels, weights, taken_prog_ids, notScore>>

----------------------------------------------------------------------------
(* The batch driver, Baseline.py.                                            *)

TOP_K == 15
TARGET_PER_COMP == 5

\* score_programs_for_student as one call: the outcomes it may have, an error
\* or, per order the sort may return, the table.
score_programs_for_student(programs, history, sid, k, useTarget, target) ==
    LET r == ResolveColumns(programs, history)
        p == build_student_profile(history, sid, r.val.student_id_col,
                                   r.val.completion_col, Some(r.val.competency_cols))
        t == TakenProgIds(history, sid, r.val)
    IN  IF ~r.ok THEN {r}
        ELSE IF ~p.ok THEN {p}
        ELSE IF ~t.ok THEN {t}
        ELSE IF ~r.val.program_id_col.some
             THEN {Raise("ValueError: program id column")}
        ELSE { Ok(HeadTopK(sorted, k)) :
                 sorted \in SortOrders(DropCompleted(
                     ScoreRows(programs, r.val, NeedWeights(p.val, useTarget, target)),
                     t.val)) }

\* A result block tagged with its policy.
TagRows(rows, method) ==
    [j \in 1..Len(rows) |-> [method |-> method, row |-> rows[j]]]

\* generate_recommendations_for_student, which the driver imports: both
\* policies run over the same tables, each block tagged with its policy, the
\* blocks concatenated in the order mean, target.  An error of either run is
\* the call's error.
generate_recommendations_for_student(programs, history, sid, k, target) ==
    { IF ~m.ok THEN m
      ELSE IF ~t.ok THEN t
      ELSE Ok(TagRows(m.val, "mean") \o TagRows(t.val, "target")) :
        m \in score_programs_for_student(programs, history, sid, k, FALSE, target),
        t \in score_programs_for_student(programs, history, sid, k, TRUE, target) }

\* Series.unique(): the distinct values in order of first appearance.
RECURSIVE Unique(_)
Unique(xs) ==
    IF xs = <<>> THEN <<>>
    ELSE LET init == Unique(SubSeq(xs, 1, Len(xs) - 1))
         IN  IF xs[Len(xs)] \in Range(init) THEN init ELSE Append(init, xs[Len(xs)])

\* Line 71: history_df[student_id_col].astype(str).unique().tolist()
StudentIds(history, col) ==
    Unique([j \in 1..Len(history.rows) |-> AsStr(history.rows[j][col])])

\* Line 88: groupby(method).cumcount() + 1.
WithRank(recs) ==
    [j \in 1..Len(recs) |->
        [method |-> recs[j].method,
         row |-> recs[j].row,
         rank |-> Cardinality({ h \in 1..j : recs[h].method = recs[j].method })]]

\* Line 100: pd.concat(all_results, ignore_index=True), each row with its learner.
RECURSIVE Concat(_)
Concat(results) ==
    IF results = <<>> THEN <<>>
    ELSE [j \in 1..Len(Head(results).recs) |->
             [sid |-> Head(results).sid, rec |-> Head(results).recs[j]]]
         \o Concat(Tail(results))

\* Where the loop goes after learner number n of total.
AfterLearner(n, total) == IF n < total THEN "loop" ELSE "save"

\* An exception that leaves the loop: the script ends with a traceback.
ExceptPropagates(n, total) == "crashed"

\* Lines 94-95: except Exception prints the learner and the loop goes on.
ExceptClause(n, total) == AfterLearner(n, total)

BatchCatalogs ==
    { MakeTable(h, << CatRow(IntCell(1), IntCell(10), IntCell(0)),
                      CatRow(IntCell(2), IntCell(0), IntCell(10)) >>) :
        h \in {CatFull, CatNoId, CatDisjoint} }
BatchHistRows ==
    { HistRow(IntCell(1), StrCell(<<"2">>), ISU, IntCell(8), IntCell(2)),
      HistRow(IntCell(2), IntCell(1), ISU, IntCell(2), IntCell(8)),
      HistRow(IntCell(1), IntCell(1), MI_SURYO, IntCell(2), IntCell(2)) }

BatchIdle ==
    /\ all_student_ids = <<>>
    /\ loop_i = 0
    /\ all_results = <<>>
    /\ log = <<>>
    /\ written = None
    /\ bpc = "idle"

StagesIdle ==
    /\ resolved = NoColumns
    /\ levels = <<>>
    /\ weights = NoWeights
    /\ taken_prog_ids = {}
    /\ out = <<>>
    /\ spc = "idle"

\* Lines 38-57: the parameters, and the two tables as loaded.
InitBatch ==
    /\ programs_df \in BatchCatalogs
    /\ \E h \in HistoryHeaders, rs \in SeqsUpTo(BatchHistRows, MaxBatchHist) :
            history_df = MakeTable(h, rs)
    /\ student_id = <<>>
    /\ top_k = TOP_K
    /\ use_target_gap = FALSE
    /\ StagesIdle
    /\ all_student_ids = <<>>
    /\ loop_i = 0
    /\ all_results = <<>>
    /\ log = <<>>
    /\ written = None
    /\ bpc = "setup"

\* Lines 62-78: the learner-id column, or sys.exit(); the learners; the loop or,
\* without learners, straight to the saving section.
DriverSetup ==
    /\ bpc = "setup"
    /\ LET col == student_id_col_detect(history_df.cols, StudentCandidates)
       IN  IF ~col.some
           THEN /\ bpc' = "exit"
                /\ UNCHANGED all_student_ids
           ELSE /\ all_student_ids' = StudentIds(history_df, col.val)
                /\ bpc' = IF Len(StudentIds(history_df, col.val)) = 0
                          THEN "save" ELSE "loop"
    /\ UNCHANGED <<loop_i, all_results, log, written, notBatch>>

\* Lines 85-95: what the iteration for learner sid does with the outcome o of
\* the call: a table is ranked and appended unless it is empty, an exception
\* is caught and printed.
Iteration(sid, o) ==
    IF o.ok
    THEN /\ all_results' =
              IF o.val # <<>>
              THEN Append(all_results, [sid |-> sid, recs |-> WithRank(o.val)])
              ELSE all_results
         /\ log' = Append(log, [sid |-> sid, ok |-> TRUE, err |-> "none",
                                recs |-> o.val])
         /\ bpc' = AfterLearner(loop_i + 1, Len(all_student_ids))
    ELSE /\ all_results' = all_results
         /\ log' = Append(log, [sid |-> sid, ok |-> FALSE, err |-> o.err,
                                recs |-> <<>>])
         /\ bpc' = ExceptClause(loop_i + 1, Len(all_student_ids))

\* Lines 79-95: one iteration of the loop, for the learner at index loop_i + 1.
\* The call returns one of the outcomes of generate_recommendations_for_student,
\* or raises some other exception for the learner.
LearnerStep ==
    /\ bpc = "loop"
    /\ loop_i < Len(all_student_ids)
    /\ LET sid == all_student_ids[loop_i + 1]
       IN  \/ Iteration(sid, Raise("Exception"))
           \/ \E o \in generate_recommendations_for_student(
                            programs_df, history_df, sid, top_k, TARGET_PER_COMP) :
                  Iteration(sid, o)
    /\ loop_i' = loop_i + 1
    /\ UNCHANGED <<all_student_ids, written, notBatch>>

\* Lines 97-114: the results are concatenated and written; a failing write is
\* caught and reported.
Save ==
    /\ bpc = "save"
    /\ IF all_results # <<>>
       THEN \E wrote \in BOOLEAN :
               written' = IF wrote THEN Some(Concat(all_results)) ELSE None
       ELSE written' = None
    /\ bpc' = "done"
    /\ UNCHANGED <<all_student_ids, loop_i, all_results, log, notBatch>>

----------------------------------------------------------------------------
(* Specifications, one per component. *)

InitFindSpec == InitFind /\ WeightsIdle /\ ProfileIdle /\ ScoreIdle /\ BatchIdle
NextFind ==
    \/ FindColCall
    \/ DriverDetect
    \/ DetectColumnsCall
SpecFind == InitFindSpec /\ [][NextFind]_vars

InitWeightsSpec == FindIdle /\ InitWeights /\ ProfileIdle /\ ScoreIdle /\ BatchIdle
NextWeights ==
    \/ MeanPolicy
    \/ TargetPolicy
SpecWeights == InitWeightsSpec /\ [][NextWeights]_vars

InitProfileSpec == FindIdle /\ WeightsIdle /\ InitProfile /\ ScoreIdle /\ BatchIdle
NextProfile == BuildProfile
SpecProfile == InitProfileSpec /\ [][NextProfile]_vars

InitScoreSpec == FindIdle /\ WeightsIdle /\ ProfileIdle /\ InitScore /\ BatchIdle
NextScore ==
    \/ Resolve
    \/ ProfileAndWeights
    \/ CollectTaken
    \/ ScoreEach
    \/ Drop
    \/ Sort
    \/ Truncate
SpecScore == InitScoreSpec /\ [][NextScore]_vars

InitBatchSpec == FindIdle /\ WeightsIdle /\ ProfileIdle /\ InitBatch
NextBatch ==
    \/ DriverSetup
    \/ LearnerStep
    \/ Save
SpecBatch == InitBatchSpec /\ [][NextBatch]_vars

\* The script runs on by itself: a statement that can execute does.
SpecBatchLive == SpecBatch /\ WF_vars(NextBatch)

----------------------------------------------------------------------------
(* Properties. *)

\* The pairs (candidate index, column index) where the candidate is contained.
Matches(cs, cands) ==
    { <<k, j>> \in (1..Len(cands)) \X (1..Len(cs)) : Contains(cands[k], cs[j]) }

\* The first column, in column order, containing any candidate; None if none.
FirstColumnAnyCandidate(cs, cands) ==
    IF Matches(cs, cands) = {} THEN None
    ELSE LET j == CHOOSE j \in 1..Len(cs) :
                    /\ \E k \in 1..Len(cands) : <<k, j>> \in Matches(cs, cands)
                    /\ \A m \in Matches(cs, cands) : m[2] >= j
         IN  Some(cs[j])

\* The first column, in column order, containing the earliest candidate, in
\* candidate order, that any column contains; None if none.
FirstColumnEarliestCandidate(cs, cands) ==
    IF Matches(cs, cands) = {} THEN None
    ELSE LET k == CHOOSE k \in 1..Len(cands) :
                    /\ \E j \in 1..Len(cs) : <<k, j>> \in Matches(cs, cands)
                    /\ \A m \in Matches(cs, cands) : m[1] >= k
             j == CHOOSE j \in 1..Len(cs) :
                    /\ <<k, j>> \in Matches(cs, cands)
                    /\ \A m \in Matches(cs, cands) : m[1] = k => m[2] >= j
         IN  Some(cs[j])

\* C10 as stated: both _find_col and the driver's detection return the first
\* column in the table's column order whose name contains any candidate, and
\* no column only when no column name contains any candidate.
C10_FirstColumnWins ==
    fpc \in {"find_col", "driver"} =>
        /\ found = FirstColumnAnyCandidate(cols, candidates)
        /\ (found = None <=> Matches(cols, candidates) = {})

\* C10 amended: _find_col returns the first column, in column order, that
\* contains the earliest candidate (in candidate-list order) contained in any
\* column; the driver's detection returns the first column in column order
\* containing any candidate; each returns no column exactly when no column
\* name contains any candidate.
C10_CandidateOrderFirst ==
    /\ fpc = "find_col" =>
            /\ found = FirstColumnEarliestCandidate(cols, candidates)
            /\ (found = None <=> Matches(cols, candidates) = {})
    /\ fpc = "driver" =>
            /\ found = FirstColumnAnyCandidate(cols, candidates)
            /\ (found = None <=> Matches(cols, candidates) = {})

\* _find_col has resolved a column that is not the first matching one in
\* column order: an earlier candidate matched a later column.
C10_Witness ==
    /\ fpc = "find_col"
    /\ found.some
    /\ found # FirstColumnAnyCandidate(cols, candidates)

\* C5 as stated: the target-relative weight is 0 where level >= target and
\* (target - level) where level < target.
C5_TargetWeightAsStated ==
    wpc = "targets" =>
        \A i \in 1..Len(student_levels) :
            need_w.num[i] = need_w.den *
                (IF student_levels[i] >= target_per_comp THEN 0
                 ELSE target_per_comp - student_levels[i])

\* C5 amended: when at least one level is below the target, the weight is 0
\* where level >= target and (target - level) where level < target; when no
\* level is below the target, every weight is 1.0 (the flat fallback).
C5_TargetWeight ==
    wpc = "targets" =>
        /\ Len(need_w.num) = Len(student_levels)
        /\ need_w.den = 1
        /\ \A i \in 1..Len(student_levels) :
              need_w.num[i] =
                IF \E j \in 1..Len(student_levels) : student_levels[j] < target_per_comp
                THEN (IF student_levels[i] >= target_per_comp THEN 0
                      ELSE target_per_comp - student_levels[i])
                ELSE 1

\* The target policy has weighted a vector with a level below the target and a
\* level at or above it.
C5_Witness ==
    /\ wpc = "targets"
    /\ \E i, j \in 1..Len(student_levels) :
          /\ student_levels[i] < target_per_comp
          /\ student_levels[j] >= target_per_comp
          /\ need_w.num[j] = 0
          /\ need_w.num[i] > 0

\* Every gap of the policy that ran is zero or negative before the clip.
AllGapsZero ==
    IF wpc = "mean"
    THEN \A i \in 1..Len(student_levels) :
            SumSeq(student_levels) - Len(student_levels) * student_levels[i] <= 0
    ELSE \A i \in 1..Len(student_levels) : target_per_comp - student_levels[i] <= 0

\* C6: under both policies and for every non-empty vector, every weight is
\* non-negative; when all gaps are zero every weight is 1.0; identical levels
\* give a uniform weight vector.
C6_NonNegativeAndFallback ==
    (wpc \in {"mean", "targets"} /\ Len(student_levels) > 0) =>
        /\ Len(need_w.num) = Len(student_levels)
        /\ need_w.den > 0
        /\ \A i \in 1..Len(need_w.num) : need_w.num[i] >= 0
        /\ AllGapsZero => \A i \in 1..Len(need_w.num) : need_w.num[i] = need_w.den
        /\ (\A i, j \in 1..Len(student_levels) : student_levels[i] = student_levels[j])
              => \A i, j \in 1..Len(need_w.num) : need_w.num[i] = need_w.num[j]

\* The mean policy has replaced the all-zero weights of a flat profile of at
\* least two competencies by 1.0.
C6_Witness ==
    /\ wpc = "mean"
    /\ Len(student_levels) >= 2
    /\ \A i, j \in 1..Len(student_levels) : student_levels[i] = student_levels[j]
    /\ \A i \in 1..Len(need_w.num) : need_w.num[i] = need_w.den

\* The sum of f over the finite set S of indices.
RECURSIVE SumOver(_, _)
SumOver(S, f) ==
    IF S = {} THEN 0
    ELSE LET x == CHOOSE x \in S : TRUE IN f[x] + SumOver(S \ {x}, f)

\* The learner's rows, and those among them with the marker in their status.
P_Mine == { j \in 1..Len(p_history.rows) :
              AsStr(p_history.rows[j][HAKBEON]) = p_student_id }
P_Completed ==
    { j \in P_Mine : /\ HasCol(p_history, ISUYEOBU)
                     /\ Contains(CompletionMarker, AsStr(p_history.rows[j][ISUYEOBU])) }
P_Qualifying == IF P_Completed # {} THEN P_Completed ELSE P_Mine

\* C9: the profile is, per competency, the sum over the learner's qualifying
\* rows: the rows whose status contains the marker if there is one, else all
\* of the learner's rows; a learner without rows gets the all-zero vector over
\* the whole competency keyspace, not an error.
C9_ProfileSums ==
    (ppc = "done" /\ HasCol(p_history, HAKBEON) /\ HasCol(p_history, HAEKSIM_A)) =>
        /\ profile.ok
        /\ Len(profile.val) = 2
        /\ profile.val[1] = SumOver(P_Qualifying,
              [j \in 1..Len(p_history.rows) |-> ToNumeric(p_history.rows[j][HAEKSIM_A])])
        /\ profile.val[2] = SumOver(P_Qualifying,
              [j \in 1..Len(p_history.rows) |-> ToNumeric(p_history.rows[j][HAEKSIM_B])])
        /\ P_Mine = {} => profile.val = <<0, 0>>

\* A profile built from two rows of the learner, none of them completed, under
\* a header that has a status column: the restriction was skipped.
C9_Witness ==
    /\ ppc = "done"
    /\ HasCol(p_history, HAKBEON)
    /\ HasCol(p_history, ISUYEOBU)
    /\ HasCol(p_history, HAEKSIM_A)
    /\ Cardinality(P_Mine) = 2
    /\ P_Completed = {}
    /\ profile.ok
    /\ profile.val[1] > 0

\* The learner's rows of history_df, those with the marker in their status,
\* and the rows the profile is summed over.
S_Mine ==
    { j \in 1..Len(history_df.rows) :
        /\ HasCol(history_df, HAKBEON)
        /\ AsStr(history_df.rows[j][HAKBEON]) = student_id }
S_Completed ==
    { j \in S_Mine :
        /\ HasCol(history_df, ISUYEOBU)
        /\ Contains(CompletionMarker, AsStr(history_df.rows[j][ISUYEOBU])) }
S_Qualifying == IF S_Completed # {} THEN S_Completed ELSE S_Mine

\* The item identifiers, as strings, of the learner's completed rows.
S_CompletedIds ==
    { AsStr(history_df.rows[j][PROGNAME]) :
        j \in { i \in S_Completed : HasCol(history_df, PROGNAME) } }

\* The catalog rows whose identifier, as a string, is not a completed one.
S_Eligible ==
    { j \in 1..Len(programs_df.rows) :
        /\ HasCol(programs_df, PROGNAME)
        /\ AsStr(programs_df.rows[j][PROGNAME]) \notin S_CompletedIds }

\* C1: from the exclusion step on (so before sorting and before truncation),
\* no row of the output table has an item identifier that equals, as a string,
\* the item identifier of a row of the learner whose status contains the marker.
C1_NoCompletedItem ==
    spc \in {"dropped", "sorted", "returned"} =>
        \A i \in 1..Len(out) : AsStr(out[i].id) \notin S_CompletedIds

\* A table was returned for a catalog that holds a completed item, and it is
\* not empty.
C1_Witness ==
    /\ spc = "returned"
    /\ Len(out) >= 1
    /\ \E j \in 1..Len(programs_df.rows) :
          AsStr(programs_df.rows[j][PROGNAME]) \in S_CompletedIds

\* C2 as stated: the returned rows are in descending score order and rows of
\* equal score keep the relative order of their catalog rows.
C2_StableDescending ==
    spc \in {"sorted", "returned"} =>
        \A i, j \in 1..Len(out) :
            i < j => \/ out[i].score > out[j].score
                     \/ out[i].score = out[j].score /\ out[i].idx < out[j].idx

\* C3: the returned table has min(top_k, eligible rows) rows, and nothing is
\* truncated before the exclusion: the sorted table holds every eligible row.
C3_TopKLength ==
    /\ spc = "returned" => Len(out) = Min(top_k, Cardinality(S_Eligible))
    /\ spc \in {"dropped", "sorted"} => Len(out) = Cardinality(S_Eligible)

\* A two-row catalog with one completed item, asked for its top 2: the one
\* eligible row is returned, without padding.
C3_Witness ==
    /\ spc = "returned"
    /\ top_k = 2
    /\ Len(programs_df.rows) = 2
    /\ Cardinality(S_Eligible) = 1
    /\ Len(out) = 1

\* The learner's summed profile over the shared competencies A and B, and the
\* need weights of the selected policy for it.
S_Levels ==
    << SumOver(S_Qualifying,
          [j \in 1..Len(history_df.rows) |-> ToNumeric(history_df.rows[j][HAEKSIM_A])]),
       SumOver(S_Qualifying,
          [j \in 1..Len(history_df.rows) |-> ToNumeric(history_df.rows[j][HAEKSIM_B])]) >>
S_Weights ==
    IF use_target_gap THEN _need_weights_from_targets(S_Levels, TargetDefault)
    ELSE _need_weights_from_mean(S_Levels)

\* The scenario of the specification: P1 = (10, 0), P2 = (0, 10), one completed
\* row (8, 2) of the learner, the mean-relative policy.
ScenarioInputs ==
    /\ programs_df = MakeTable(CatFull, << CatRow(IntCell(1), IntCell(10), IntCell(0)),
                                           CatRow(IntCell(2), IntCell(0), IntCell(10)) >>)
    /\ history_df = MakeTable(HistFull,
                        << HistRow(IntCell(1), FloatCell(3), ISU, IntCell(8), IntCell(2)) >>)
    /\ ~use_target_gap

\* C4: every row's contribution per shared competency is the catalog value
\* times the need weight derived from the learner's summed profile, and its
\* score is their sum; in the scenario the weights are (0, 3), the scores 0
\* and 30, and the top 1 is P2.  Weights and scores are numerators over
\* weights.den, which is 2 in the scenario.
C4_ScoreIsWeightedSum ==
    /\ spc \in {"scored", "dropped", "sorted", "returned"} =>
          /\ weights = S_Weights
          /\ \A i \in 1..Len(out) :
                LET row == programs_df.rows[out[i].idx]
                IN  /\ out[i].contrib =
                          << ToNumeric(row[HAEKSIM_A]) * S_Weights.num[1],
                             ToNumeric(row[HAEKSIM_B]) * S_Weights.num[2] >>
                    /\ out[i].score = out[i].contrib[1] + out[i].contrib[2]
                    /\ out[i].id = row[PROGNAME]
    /\ (ScenarioInputs /\ spc = "scored") =>
          /\ weights = [num |-> <<0 * 2, 3 * 2>>, den |-> 2]
          /\ out[1].score = 0 * 2
          /\ out[2].score = 30 * 2
    /\ (ScenarioInputs /\ spc = "returned" /\ top_k = 1) =>
          /\ Len(out) = 1
          /\ out[1].id = IntCell(2)
          /\ out[1].score = 30 * 2

\* The scenario has been scored and its top 1 returned.
C4_Witness ==
    /\ ScenarioInputs
    /\ spc = "returned"
    /\ top_k = 1
    /\ out[1].id = IntCell(2)

\* What the loop keeps of the iterations logged so far: the ranked result of
\* every learner whose call returned a non-empty table, in order.
RECURSIVE Kept(_)
Kept(entries) ==
    IF entries = <<>> THEN <<>>
    ELSE LET e == entries[Len(entries)]
             init == Kept(SubSeq(entries, 1, Len(entries) - 1))
         IN  IF e.ok /\ e.recs # <<>>
             THEN Append(init, [sid |-> e.sid, recs |-> WithRank(e.recs)])
             ELSE init

\* The state of the loop: the learners are attempted exactly once each, in the
\* order of all_student_ids; the results of the learners that succeeded,
\* before or after a failing one, are all kept; the script is never stopped
\* inside the loop: it is at the setup, in the loop with a learner left to
\* attempt, at the saving section with every learner attempted, or done (or it
\* has exited before the loop for want of a learner-id column); what the
\* saving section writes is what was kept.
C7_LoopInvariant ==
    /\ bpc \in {"setup", "exit", "loop", "save", "done"}
    /\ Len(log) = loop_i
    /\ loop_i <= Len(all_student_ids)
    /\ \A j \in 1..Len(log) : log[j].sid = all_student_ids[j]
    /\ all_results = Kept(log)
    /\ bpc = "loop" => loop_i < Len(all_student_ids)
    /\ bpc = "save" => loop_i = Len(all_student_ids)
    /\ bpc = "done" =>
          /\ loop_i = Len(all_student_ids)
          /\ written.some => written.val = Concat(Kept(log))
    /\ bpc = "exit" => log = <<>>

\* C7: an exception raised for one learner does not stop the loop: at every
\* moment every learner so far was attempted exactly once, in order, and the
\* results of those that succeeded are all kept (C7_LoopInvariant); and the
\* run eventually gets through the saving section (or had exited before the
\* loop for want of a learner-id column), whichever learners failed.
C7_LoopSurvivesFailures ==
    /\ []C7_LoopInvariant
    /\ <>(bpc \in {"done", "exit"})

\* The run has ended with the results written, the first learner having
\* failed and the second having succeeded.
C7_Witness ==
    /\ bpc = "done"
    /\ Len(log) = 2
    /\ ~log[1].ok
    /\ log[2].ok
    /\ Len(all_results) = 1
    /\ written.some
    /\ written.val # <<>>

\* C8 as stated: the empty-intersection error is raised once, for the table
\* pair, before any per-learner work: never inside an iteration of the loop.
C8_EmptyIntersectionFailsFast ==
    \A j \in 1..Len(log) : log[j].err # "ValueError: empty intersection"

====
